---- MODULE Spec2Model ----
(***************************************************************************)
(* Model of the audio degradation pipeline: DistortionEngine and           *)
(* AudioCompressor (app.js, compressor.js and the unnamed variants).       *)
(*                                                                         *)
(* Samples are fixed-point numbers in thousandths (SCALE = 1000 stands for *)
(* the sample value 1.0).  Progress percentages are kept in tenths of a    *)
(* percent (1000 stands for 100%).  AudioBuffers live in a heap of objects *)
(* so that "a new buffer" and "the same buffer" are different things.      *)
(***************************************************************************)
EXTENDS Integers, Sequences, FiniteSets, TLC

\* ------------------------------------------------------------------ bounds
MaxChannels == 2
MaxLength == 150
MaxDirectLength == 3
MaxRenderLength == 20
NumBases == 1
NumSeeds == 2
RngMod == 8
MaxTicks == 52
NumFileNames == 2
MaxRuns == 3

\* ------------------------------------------------------- units of the model
SCALE == 1000
PSCALE == 10

\* --------------------------------------------------------------- variables
VARIABLES
    entry,          \* which entry point of which source file this run exercises
    pc,             \* position of the run inside that entry point
    file,           \* what decoding the selected file yields (or that it fails)
    heap,           \* AudioBuffer objects, by identity
    audioBuffer,    \* id of the decoded / input buffer (0: none yet)
    original,       \* the input buffer's samples at the moment it was handed over
    renderedBuffer, \* id of the buffer produced by offline rendering (0: none)
    processedBuffer,\* id of the buffer the transform writes (0: none yet)
    settings,       \* DistortionUI settings: type, intensity, noise, crackle
    qualityLevel,   \* AudioCompressor quality level
    qualitySettings,\* what getQualitySettings returned for it (const settings)
    step,           \* loop counter of processAudioBuffer
    progressLog,    \* sequence of the values passed to onProgress
    rng,            \* Math.random: generator state and number of draws
    wav,            \* the encoded output (DataView contents), or NoWav
    graph,          \* connections of the offline audio graph (set of edges)
    progress,       \* the progress variable the interval callback closes over
    interval,       \* whether the progress interval is set (not yet cleared)
    ticks,          \* how many times the interval callback has run
    failure,        \* the step of the run that failed ("none": no step has)
    error,          \* the error the run's promise rejected with ("none": none)
    reads,          \* how many times the file was handed to the reader
    decodes,        \* how many times decodeAudioData was called
    uiVariant,      \* which page script the user interface runs ("none": none)
    selectedFile,   \* the file the user interface holds as selected
    passed,         \* the files the user interface handed to the engine
    rejected,       \* the files handleFile turned down
    panels,         \* which of the page's panels are displayed
    processDisabled,\* processBtn.disabled
    enableTimer,    \* whether the setTimeout that re-enables processBtn is pending
    runs,           \* the processing runs in flight (awaiting the engine)
    started,        \* how many runs the page has started
    blob,           \* the file the stored result was produced from (NoFile: none)
    settled,        \* the run that settled last, and the branch it took
    download        \* the last download: the blob's file and the file named

vars == <<entry, pc, file, heap, audioBuffer, original, renderedBuffer,
          processedBuffer, settings, qualityLevel, qualitySettings, step,
          progressLog, rng, wav, graph, progress, interval, ticks,
          failure, error, reads, decodes,
          uiVariant, selectedFile, passed, rejected,
          panels, processDisabled, enableTimer, runs, started, blob, settled,
          download>>

\* ----------------------------------------------------------- number helpers
Abs(x) == IF x < 0 THEN -x ELSE x

Min(a, b) == IF a < b THEN a ELSE b

Max(a, b) == IF a > b THEN a ELSE b

\* Math.round(a / b) for b > 0: floor(a/b + 0.5), ties toward +infinity
MathRound(a, b) == (2 * a + b) \div (2 * b)

\* conversion of the number a / b (b > 0) to an integer: truncation toward 0
ToInteger(a, b) == IF a >= 0 THEN a \div b ELSE -((-a) \div b)

\* Math.max(-1, Math.min(1, sample))
Clamp(sample) == Max(-SCALE, Min(SCALE, sample))

RECURSIVE Pow2(_)
Pow2(n) == IF n <= 0 THEN 1 ELSE 2 * Pow2(n - 1)

\* Math.tanh on thousandths: linear interpolation in a table at steps of 0.25
TanhTable == <<0, 245, 462, 635, 762, 848, 905, 941, 964, 978, 987, 992, 995>>

TanhPos(a) ==
    IF a >= 3000 THEN 995 + Min(5, (a - 3000) \div 1000)
    ELSE LET k == a \div 250
             lo == TanhTable[k + 1]
             hi == TanhTable[k + 2]
         IN  lo + ((hi - lo) * (a - 250 * k)) \div 250

MathTanh(a) == IF a >= 0 THEN TanhPos(a) ELSE -TanhPos(-a)

\* Math.sin on thousandths of a radian: quarter-wave table at steps of pi/16
PI == 3142

SinTable == <<0, 195, 383, 556, 707, 831, 924, 981, 1000>>

SinQuarter(u) ==
    LET v == Min(u, 1571)
        k == Min(7, (v * 8) \div 1571)
        lo == SinTable[k + 1]
        hi == SinTable[k + 2]
        base == (k * 1571) \div 8
    IN  Min(SCALE, lo + ((hi - lo) * (v - base) * 8) \div 1571)

MathSin(a) ==
    LET t == a % (2 * PI)
    IN  IF t <= 1571 THEN SinQuarter(t)
        ELSE IF t <= PI THEN SinQuarter(PI - t)
        ELSE IF t <= PI + 1571 THEN -SinQuarter(t - PI)
        ELSE -SinQuarter(2 * PI - t)

\* ------------------------------------------------------------- Math.random
\* A generator with hidden state; every call returns a value in [0, 1) and
\* advances the state.  The state at the start of a run is arbitrary.
RandomValue(r) == (r.state * SCALE) \div RngMod

RandomNext(r) == [state |-> (5 * r.state + 3) % RngMod, calls |-> r.calls + 1]

\* ------------------------------------------------------------ AudioBuffers
NoBuffer == 0

\* no File object (null, or files[0] of an empty list)
NoFile == [name |-> 0, type |-> <<"", "">>, present |-> FALSE]

ZeroData(channels, length) ==
    [c \in 0 .. channels - 1 |-> [i \in 0 .. length - 1 |-> 0]]

\* sample values decoded files (and rendered buffers) are made of
SampleVals == <<-1500, -1000, -750, -571, -1, 0, 1, 142, 500, 750, 1000, 1500>>

\* the base that stands for a file of silence (every sample 0)
SilentBase == Len(SampleVals)

MakeData(channels, length, base) ==
    [c \in 0 .. channels - 1 |->
        [i \in 0 .. length - 1 |->
            IF base >= SilentBase THEN 0
            ELSE SampleVals[((base + i * channels + c) % Len(SampleVals)) + 1]]]

AudioBufferOf(channels, length, rate, data) ==
    [numberOfChannels |-> channels, length |-> length,
     sampleRate |-> rate, data |-> data]

\* audioContext.createBuffer(channels, length, rate): a new, zero-filled
\* object; its identity differs from every existing buffer
\* (mutant: the input buffer itself is handed back)
createBufferIdMutant(h, src) == src

createBufferId(h, src) == Len(h) + 1

createBuffer(h, src, channels, length, rate) ==
    LET id == createBufferId(h, src)
    IN  IF id > Len(h)
        THEN Append(h, AudioBufferOf(channels, length, rate,
                                     ZeroData(channels, length)))
        ELSE h

\* --------------------------------------------------- DistortionEngine (app.js)
DistortionTypes == {"digital", "analog", "crushed", "radio", "glitch", "none"}

Intensities == {1, 10}

\* levels of the 'crushed' distortion: Math.pow(2, Math.max(1, 16 - intensity))
\* where intensity = settings.intensity * 0.5 (a half-integer exponent is
\* 2^k * sqrt(2), rounded to an integer number of levels)
crushedLevels(settingsIntensity) ==
    IF settingsIntensity >= 30 THEN 2
    ELSE IF settingsIntensity % 2 = 0 THEN Pow2(16 - settingsIntensity \div 2)
    ELSE MathRound(Pow2(15 - (settingsIntensity - 1) \div 2) * 14142, 10000)

\* applyMainDistortion(sample, settings): [value, rng]
applyMainDistortion(sample, s, r) ==
    CASE s.type = "digital" ->
            [value |-> MathTanh(MathRound(sample * s.intensity, 2)), rng |-> r]
      [] s.type = "analog" ->
            [value |-> MathSin(MathRound(sample * s.intensity * PI, 4 * SCALE)),
             rng |-> r]
      [] s.type = "crushed" ->
            LET levels == crushedLevels(s.intensity)
                q == MathRound(sample * levels, SCALE)
            IN  [value |-> MathRound(q * SCALE, levels), rng |-> r]
      [] s.type = "radio" ->
            [value |-> MathRound(MathSin(sample * s.intensity) * 7, 10), rng |-> r]
      [] s.type = "glitch" ->
            LET r1 == RandomNext(r)
            IN  IF 2 * 100 * RandomValue(r) < s.intensity * SCALE
                THEN [value |-> (RandomValue(r1) - SCALE \div 2) * 2,
                      rng |-> RandomNext(r1)]
                ELSE [value |-> sample, rng |-> r1]
      [] OTHER -> [value |-> sample, rng |-> r]

\* (mutant: noise is added whether or not settings.noise is set)
distortSampleMutant(sample, s, r) ==
    LET a == applyMainDistortion(sample, s, r)
    IN  [value |-> a.value
                   + MathRound((RandomValue(a.rng) - SCALE \div 2)
                               * s.intensity, 10),
         rng |-> RandomNext(a.rng)]

\* the body of the innermost loop of processAudioBuffer, up to the clamp
distortSample(sample, s, r) ==
    LET a == applyMainDistortion(sample, s, r)
        b == IF s.noise
             THEN [value |-> a.value
                             + MathRound((RandomValue(a.rng) - SCALE \div 2)
                                         * s.intensity, 10),
                   rng |-> RandomNext(a.rng)]
             ELSE a
        c == IF s.crackle
             THEN LET r1 == RandomNext(b.rng)
                  IN  IF 1000 * RandomValue(b.rng) < s.intensity * SCALE
                      THEN [value |-> (RandomValue(r1) - SCALE \div 2) * 2,
                            rng |-> RandomNext(r1)]
                      ELSE [value |-> b.value, rng |-> r1]
             ELSE b
    IN  c

\* (mutant: the upper bound of the clamp is missing)
storeSampleMutant(sample) == Max(-SCALE, sample)

\* outputData[i] = Math.max(-1, Math.min(1, sample))
storeSample(sample) == Clamp(sample)

totalSteps == 100

stepSize(length) == length \div totalSteps

stepStart(st, length) == st * stepSize(length)

stepEnd(st, length) == Min(stepStart(st, length) + stepSize(length), length)

\* the loops over channel and i of one step: [data, rng]
RECURSIVE processRange(_, _, _, _, _, _, _, _, _)
processRange(inData, outData, s, r, channels, channel, start, i, end) ==
    IF channel >= channels THEN [data |-> outData, rng |-> r]
    ELSE IF i >= end
         THEN processRange(inData, outData, s, r, channels, channel + 1,
                           start, start, end)
    ELSE LET d == distortSample(inData[channel][i], s, r)
         IN  processRange(inData,
                          [outData EXCEPT ![channel][i] = storeSample(d.value)],
                          s, d.rng, channels, channel, start, i + 1, end)

\* (mutant: the 20% already reported for decoding is not added)
stepProgressMutant(st) == (st * 100 * PSCALE) \div totalSteps

\* onProgress(20 + (step / totalSteps) * 80), in tenths of a percent
stepProgress(st) == 20 * PSCALE + (st * 80 * PSCALE) \div totalSteps

\* one pass of the step loop of processAudioBuffer on the heap: the input
\* samples are read from the buffer src, the results stored in the buffer dst
processStep(h, src, dst, s, r, st) ==
    LET length == h[src].length
        res == processRange(h[src].data, h[dst].data, s, r,
                            h[src].numberOfChannels, 0,
                            stepStart(st, length), stepStart(st, length),
                            stepEnd(st, length))
    IN  [heap |-> [h EXCEPT ![dst].data = res.data], rng |-> res.rng]

\* the whole of processAudioBuffer(buffer, settings, onProgress) on the heap,
\* Math.random being in state r when it is called: the output buffer is
\* created and the step loop runs from st to the end; [heap, rng, output]
RECURSIVE processSteps(_, _, _, _, _, _)
processSteps(h, src, dst, s, r, st) ==
    IF st >= totalSteps THEN [heap |-> h, rng |-> r, output |-> dst]
    ELSE LET res == processStep(h, src, dst, s, r, st)
         IN  \* the step is complete (its draws counted) before the next starts
             IF res.rng.calls >= r.calls /\ Len(res.heap) = Len(h)
             THEN processSteps(res.heap, src, dst, s, res.rng, st + 1)
             ELSE [heap |-> res.heap, rng |-> res.rng, output |-> dst]

processAudioBuffer(h, src, s, r) ==
    processSteps(createBuffer(h, src, h[src].numberOfChannels, h[src].length,
                              h[src].sampleRate),
                 src, createBufferId(h, src), s, r, 0)

\* ------------------------------------------------------- DataView / WAV output
\* new DataView(new ArrayBuffer(size)): zero-filled bytes.  count records how
\* many times each byte was stored to; ok turns FALSE when a store falls
\* outside the buffer (the DataView throws a RangeError).
\* The byte at offset k is element k + 1 of the sequence bytes.
RECURSIVE Zeros(_)
Zeros(n) ==
    IF n <= 0 THEN <<>>
    ELSE IF n % 2 = 0 THEN LET half == Zeros(n \div 2) IN half \o half
    ELSE Append(Zeros(n - 1), 0)

newDataView(size) ==
    [size |-> size, bytes |-> Zeros(size), count |-> Zeros(size), ok |-> TRUE]

setUint8(view, offset, value) ==
    IF offset < 0 \/ offset + 1 > view.size THEN [view EXCEPT !.ok = FALSE]
    ELSE [view EXCEPT !.bytes[offset + 1] = value % 256,
                      !.count[offset + 1] = @ + 1]

\* little-endian stores (the littleEndian argument is always true)
setUint16(view, offset, value) ==
    IF offset < 0 \/ offset + 2 > view.size THEN [view EXCEPT !.ok = FALSE]
    ELSE [view EXCEPT !.bytes[offset + 1] = value % 256,
                      !.bytes[offset + 2] = (value \div 256) % 256,
                      !.count[offset + 1] = @ + 1,
                      !.count[offset + 2] = @ + 1]

setUint32(view, offset, value) ==
    IF offset < 0 \/ offset + 4 > view.size THEN [view EXCEPT !.ok = FALSE]
    ELSE [view EXCEPT !.bytes[offset + 1] = value % 256,
                      !.bytes[offset + 2] = (value \div 256) % 256,
                      !.bytes[offset + 3] = (value \div 65536) % 256,
                      !.bytes[offset + 4] = (value \div 16777216) % 256,
                      !.count[offset + 1] = @ + 1,
                      !.count[offset + 2] = @ + 1,
                      !.count[offset + 3] = @ + 1,
                      !.count[offset + 4] = @ + 1]

\* view.setInt16(offset, sample * 0x7FFF, true): the number sample * 32767 is
\* converted to an integer (its fraction is dropped) and stored modulo 2^16
int16Scale == 32767

\* (mutant: the scale is 0x8000, so that 1.0 wraps around to -32768)
sampleToInt16Mutant(sample) == ToInteger(sample * (int16Scale + 1), SCALE)

sampleToInt16(sample) == ToInteger(sample * int16Scale, SCALE)

setInt16(view, offset, value) == setUint16(view, offset, value % 65536)

\* writeString(offset, string), the string given by its character codes
RECURSIVE writeString(_, _, _)
writeString(view, offset, codes) ==
    IF codes = <<>> THEN view
    ELSE writeString(setUint8(view, offset, Head(codes)), offset + 1, Tail(codes))

RIFF == <<82, 73, 70, 70>>

WAVE == <<87, 65, 86, 69>>

FMT == <<102, 109, 116, 32>>

DATA == <<100, 97, 116, 97>>

\* (mutant: the channel count is left out of the data length)
dataLengthMutant(buffer) == buffer.length * 2

\* const length = buffer.length * buffer.numberOfChannels * 2
dataLength(buffer) == buffer.length * buffer.numberOfChannels * 2

headerSize == 44

writeHeader(view, buffer) ==
    LET length == dataLength(buffer)
        v1 == writeString(view, 0, RIFF)
        v2 == setUint32(v1, 4, 36 + length)
        v3 == writeString(v2, 8, WAVE)
        v4 == writeString(v3, 12, FMT)
        v5 == setUint32(v4, 16, 16)
        v6 == setUint16(v5, 20, 1)
        v7 == setUint16(v6, 22, buffer.numberOfChannels)
        v8 == setUint32(v7, 24, buffer.sampleRate)
        v9 == setUint32(v8, 28, buffer.sampleRate * buffer.numberOfChannels * 2)
        v10 == setUint16(v9, 32, buffer.numberOfChannels * 2)
        v11 == setUint16(v10, 34, 16)
        v12 == writeString(v11, 36, DATA)
    IN  setUint32(v12, 40, length)

\* (mutant: the offset advances by one byte per sample)
nextOffsetMutant(offset) == offset + 1

\* offset += 2
nextOffset(offset) == offset + 2

\* the inner loop (over channel) for frame i: [view, offset]; a RangeError
\* thrown by the store ends the loops
RECURSIVE writeFrame(_, _, _, _, _)
writeFrame(view, buffer, i, channel, offset) ==
    IF channel >= buffer.numberOfChannels
    THEN [view |-> view, offset |-> offset]
    ELSE LET sample == Clamp(buffer.data[channel][i])
             stored == setInt16(view, offset, sampleToInt16(sample))
         IN  IF ~stored.ok THEN [view |-> stored, offset |-> offset]
             ELSE writeFrame(stored, buffer, i, channel + 1, nextOffset(offset))

\* the outer loop (over i) for the frames lo .. hi - 1, in order, the offset
\* carried from one frame to the next: [view, offset]
RECURSIVE writeSamples(_, _, _, _, _)
writeSamples(view, buffer, lo, hi, offset) ==
    IF lo >= hi THEN [view |-> view, offset |-> offset]
    ELSE IF hi = lo + 1 THEN writeFrame(view, buffer, lo, 0, offset)
    ELSE LET mid == (lo + hi) \div 2
             first == writeSamples(view, buffer, lo, mid, offset)
         IN  IF ~first.view.ok THEN first
             ELSE writeSamples(first.view, buffer, mid, hi, first.offset)

\* bufferToWav(buffer) / audioBufferToBlob(buffer): the bytes of the Blob
bufferToWav(buffer) ==
    LET view == newDataView(headerSize + dataLength(buffer))
        res == writeSamples(writeHeader(view, buffer), buffer, 0,
                            buffer.length, headerSize)
    IN  [size |-> res.view.size, bytes |-> res.view.bytes,
         count |-> res.view.count, ok |-> res.view.ok, offset |-> res.offset]

NoWav == [size |-> -1, bytes |-> <<>>, count |-> <<>>, ok |-> TRUE, offset |-> 0]

\* reading the bytes back
byteAt(bytes, offset) == bytes[offset + 1]

u16At(bytes, offset) == byteAt(bytes, offset) + 256 * byteAt(bytes, offset + 1)

u32At(bytes, offset) == u16At(bytes, offset) + 65536 * u16At(bytes, offset + 2)

i16At(bytes, offset) ==
    LET u == u16At(bytes, offset) IN IF u >= 32768 THEN u - 65536 ELSE u

\* ------------------------------------------------ AudioCompressor (3 variants)
\* getQualitySettings(level): a table lookup; a level that is no key of the
\* table yields undefined
Undefined == [defined |-> FALSE]

getQualitySettings_app(level) ==
    CASE level = 1 -> [defined |-> TRUE, compressionRatio |-> 2, distortion |-> 0]
      [] level = 2 -> [defined |-> TRUE, compressionRatio |-> 3, distortion |-> 0]
      [] level = 3 -> [defined |-> TRUE, compressionRatio |-> 4, distortion |-> 0]
      [] level = 4 -> [defined |-> TRUE, compressionRatio |-> 4, distortion |-> 20]
      [] level = 5 -> [defined |-> TRUE, compressionRatio |-> 4, distortion |-> 40]
      [] OTHER -> Undefined

getQualitySettings_part000(level) ==
    CASE level = 1 -> [defined |-> TRUE, compressionRatio |-> 2, distortion |-> 0]
      [] level = 2 -> [defined |-> TRUE, compressionRatio |-> 3, distortion |-> 0]
      [] level = 3 -> [defined |-> TRUE, compressionRatio |-> 4, distortion |-> 0]
      [] level = 4 -> [defined |-> TRUE, compressionRatio |-> 4, distortion |-> 20]
      [] level = 5 -> [defined |-> TRUE, compressionRatio |-> 4, distortion |-> 40]
      [] OTHER -> Undefined

getQualitySettings_js(level) ==
    CASE level = 1 -> [defined |-> TRUE, threshold |-> -50, knee |-> 40,
                       ratio |-> 12, distortion |-> 0, bitrate |-> 3000]
      [] level = 2 -> [defined |-> TRUE, threshold |-> -40, knee |-> 30,
                       ratio |-> 10, distortion |-> 0, bitrate |-> 2000]
      [] level = 3 -> [defined |-> TRUE, threshold |-> -30, knee |-> 20,
                       ratio |-> 8, distortion |-> 0, bitrate |-> 1000]
      [] level = 4 -> [defined |-> TRUE, threshold |-> -20, knee |-> 10,
                       ratio |-> 6, distortion |-> 20, bitrate |-> 1000]
      [] level = 5 -> [defined |-> TRUE, threshold |-> -10, knee |-> 0,
                       ratio |-> 4, distortion |-> 50, bitrate |-> 1000]
      [] OTHER -> Undefined

\* (mutant: the table is keyed from 0, each level gets the next level's entry)
getQualitySettingsMutant(variant, level) ==
    CASE variant = "compressAudio_app" -> getQualitySettings_app(level + 1)
      [] variant = "compressAudio_part000" ->
            getQualitySettings_part000(level + 1)
      [] OTHER -> getQualitySettings_js(level + 1)

getQualitySettings(variant, level) ==
    CASE variant = "compressAudio_app" -> getQualitySettings_app(level)
      [] variant = "compressAudio_part000" -> getQualitySettings_part000(level)
      [] OTHER -> getQualitySettings_js(level)

\* the value given to compressor.ratio.setValueAtTime
compressorRatio(variant, s) ==
    IF variant = "compressAudio_js" THEN s.ratio ELSE s.compressionRatio

\* the sample rate of the OfflineAudioContext
minRenderRate == 8000

maxRenderRate == 44100

renderSampleRate(variant, sourceRate) ==
    IF variant = "compressAudio_app"
    THEN Max(minRenderRate, Min(maxRenderRate, sourceRate))
    ELSE sourceRate

\* the length (in frames) given to the OfflineAudioContext
renderLength(variant, audioBuf) == audioBuf.length

\* the connect() calls of compressAudio, as edges between nodes
audioGraph(variant, distortion) ==
    CASE variant = "compressAudio_app" ->
            (IF distortion > 0 THEN {<<"compressor", "waveShaper">>} ELSE {})
            \cup {<<"source", "gain">>, <<"gain", "compressor">>,
                  <<(IF distortion > 0 THEN "waveShaper" ELSE "compressor"),
                    "destination">>}
      [] variant = "compressAudio_part000" ->
            (IF distortion > 0 THEN {<<"compressor", "waveShaper">>} ELSE {})
            \cup {<<(IF distortion > 0 THEN "waveShaper" ELSE "compressor"),
                    "destination">>}
      [] OTHER ->
            {<<"source", "compressor">>}
            \cup (IF distortion > 0
                  THEN {<<"compressor", "waveShaper">>,
                        <<"waveShaper", "destination">>}
                  ELSE {<<"compressor", "destination">>})

Nodes == {"source", "gain", "compressor", "waveShaper", "destination"}

RECURSIVE reachableFrom(_, _, _)
reachableFrom(g, seen, n) ==
    LET more == seen \cup {e[2] : e \in {d \in g : d[1] \in seen}}
    IN  IF n = 0 \/ more = seen THEN seen ELSE reachableFrom(g, more, n - 1)

sourceReachesDestination(g) ==
    "destination" \in reachableFrom(g, {"source"}, Cardinality(Nodes))

\* (mutant: the cap at 95 is missing)
tickProgressMutant(variant, p) ==
    IF variant = "compressAudio_part000" THEN p + 5 ELSE p + 2

\* the interval callback's new value of progress
tickProgress(variant, p) ==
    CASE variant = "compressAudio_app" -> Min(p + 2, 95)
      [] variant = "compressAudio_part000" -> Min(p + 5, 95)
      [] OTHER -> p + 2

\* create3BitAudio: the level tables and the index computation
levels_app == <<-1000, -714, -428, -142, 142, 428, 714, 1000>>

levels_part000 == <<-1000, -750, -500, -250, 0, 250, 500, 750>>

\* (mutant: Math.floor in place of Math.round)
levelIndex_appMutant(sample) == ((sample + SCALE) * 7) \div (2 * SCALE)

levelIndex_app(sample) == MathRound((sample + SCALE) * 7, 2 * SCALE)

levelIndex_part000(sample) == MathRound((sample + SCALE) * 35, 10 * SCALE)

clampedIndex(index) == Max(0, Min(7, index))

quantize_app(sample) == levels_app[clampedIndex(levelIndex_app(sample)) + 1]

quantize_part000(sample) ==
    levels_part000[clampedIndex(levelIndex_part000(sample)) + 1]

quantize(variant, sample) ==
    IF variant \in {"compressAudio_app", "create3BitAudio_app"}
    THEN quantize_app(sample)
    ELSE quantize_part000(sample)

\* the quantization loops of create3BitAudio on the heap: buffer src is read,
\* buffer dst (made by createBuffer) is stored to
create3BitAudio(variant, h, src) ==
    LET b == h[src]
        h1 == createBuffer(h, src, b.numberOfChannels, b.length, b.sampleRate)
        dst == createBufferId(h, src)
    IN  [heap |-> [h1 EXCEPT ![dst].data =
                     [c \in 0 .. b.numberOfChannels - 1 |->
                        [i \in 0 .. b.length - 1 |->
                            quantize(variant, h1[src].data[c][i])]]],
         compressedBuffer |-> dst]

\* the inline loop of processAudio (part_002): Math.sin(sample * 3) * 0.7
simpleDistortion(sample) == Clamp(MathRound(MathSin(sample * 3) * 7, 10))

processAudio_part002(h, src) ==
    LET b == h[src]
        h1 == createBuffer(h, src, b.numberOfChannels, b.length, b.sampleRate)
        dst == createBufferId(h, src)
    IN  [heap |-> [h1 EXCEPT ![dst].data =
                     [c \in 0 .. b.numberOfChannels - 1 |->
                        [i \in 0 .. b.length - 1 |->
                            simpleDistortion(h1[src].data[c][i])]]],
         processed |-> dst]

\* ------------------------------------------------------------ initial states
Entries == {"addDistortion", "compressAudio_app", "compressAudio_part000",
            "compressAudio_js", "processAudio_part002", "addDistortion_part001",
            "create3BitAudio_app", "create3BitAudio_part000", "bufferToWav"}

CompressEntries == {"compressAudio_app", "compressAudio_part000",
                    "compressAudio_js"}

DirectEntries == {"create3BitAudio_app", "create3BitAudio_part000",
                  "bufferToWav"}

\* frame counts of decoded files: empty, shorter than totalSteps, a multiple
\* of totalSteps, and MaxLength
Lengths == {0, 50, 100, MaxLength}

\* frame counts of the files given to compressAudio and processAudio
RenderLengths == {0, 1, MaxRenderLength}

DeviceRates == {22050, 44100, 48000}

DistortionRates == {44100}

\* sample rates of the files given to compressAudio, processAudio (part_002)
\* and addDistortion (part_001): the render rate limit and a rate above it
RenderRates == {44100, 48000}

QualityLevels == 0 .. 5

\* the mono files of silence given to compressAudio
SilentFiles ==
    [channels : {1}, length : RenderLengths, rate : RenderRates,
     base : {SilentBase}]

FilesOf(e) ==
    [channels : 1 .. MaxChannels,
     length : IF e \in DirectEntries THEN 0 .. MaxDirectLength
              ELSE IF e = "addDistortion" THEN Lengths
              ELSE RenderLengths,
     rate : IF e = "addDistortion" THEN DistortionRates
            ELSE IF e \in DirectEntries THEN DeviceRates
            ELSE RenderRates,
     base : IF e \in DirectEntries THEN 0 .. SilentBase
            ELSE IF e = "addDistortion" THEN {0}
            ELSE 0 .. NumBases - 1]
    \cup (IF e \in CompressEntries THEN SilentFiles ELSE {})

decodedBuffer(f) ==
    AudioBufferOf(f.channels, f.length, f.rate,
                  MakeData(f.channels, f.length, f.base))

DefaultSettings ==
    [type |-> "digital", intensity |-> 5, noise |-> FALSE, crackle |-> FALSE]

SettingsSet ==
    [type : DistortionTypes, intensity : Intensities,
     noise : BOOLEAN, crackle : BOOLEAN]

\* settings with the drive at 0 (settings.intensity = 0), no extra effect
ZeroDriveSettings ==
    [type : DistortionTypes, intensity : {0},
     noise : {FALSE}, crackle : {FALSE}]

\* the bit crusher at its coarsest: 16 - intensity * 0.5 = 1 bit
DeepCrushSettings ==
    [type : {"crushed"}, intensity : {30},
     noise : {FALSE}, crackle : {FALSE}]

usesRandom(s) == s.noise \/ s.crackle \/ s.type = "glitch"

\* the panels the page scripts show and hide: controls ('controls', or
\* 'fileInfo' in part_002), progress ('progressContainer') and result
\* ('result', or 'downloadContainer')
PanelNames == {"controls", "progress", "result"}

\* no run (of the last settled run), no download
NoRun == [id |-> 0, file |-> NoFile, ok |-> FALSE, branch |-> "none"]

NoDownload == [blob |-> NoFile, name |-> 0]

\* the page after DOMContentLoaded: nothing selected, the three panels
\* hidden, processBtn enabled, no result stored
pageLoaded ==
    /\ panels = [n \in PanelNames |-> FALSE]
    /\ processDisabled = FALSE
    /\ enableTimer = FALSE
    /\ runs = {}
    /\ started = 0
    /\ blob = NoFile
    /\ settled = NoRun
    /\ download = NoDownload

Init ==
    /\ entry \in Entries
    /\ pc = "start"
    /\ file \in FilesOf(entry)
    /\ heap = IF entry \in DirectEntries THEN <<decodedBuffer(file)>> ELSE <<>>
    /\ audioBuffer = IF entry \in DirectEntries THEN 1 ELSE NoBuffer
    /\ original = IF entry \in DirectEntries THEN decodedBuffer(file).data
                  ELSE <<>>
    /\ renderedBuffer = NoBuffer
    /\ processedBuffer = NoBuffer
    /\ settings \in IF entry = "addDistortion"
                    THEN SettingsSet \cup ZeroDriveSettings
                         \cup DeepCrushSettings
                    ELSE IF entry = "addDistortion_part001" THEN SettingsSet
                    ELSE {DefaultSettings}
    /\ qualityLevel \in IF entry \in CompressEntries /\ file.base # SilentBase
                        THEN QualityLevels ELSE {3}
    /\ qualitySettings = Undefined
    /\ step = 0
    /\ progressLog = <<>>
    /\ rng \in [state : IF entry = "addDistortion" /\ usesRandom(settings)
                        THEN 0 .. NumSeeds - 1 ELSE {0},
                calls : {0}]
    /\ wav = NoWav
    /\ graph = {}
    /\ progress = 0
    /\ interval = FALSE
    /\ ticks = 0
    /\ failure = "none"
    /\ error = "none"
    /\ reads = 0
    /\ decodes = 0
    /\ uiVariant = "none"
    /\ selectedFile = NoFile
    /\ passed = {}
    /\ rejected = {}
    /\ pageLoaded

\* onProgress(value): the value is appended to the log of the run
onProgress(log, value) == Append(log, value)

failVars == <<failure, error, reads, decodes>>

uiVars == <<uiVariant, selectedFile, passed, rejected,
           panels, processDisabled, enableTimer, runs, started, blob, settled,
           download>>

\* the error a failing step raises: the FileReader / file.arrayBuffer, the
\* decoder, the access to a property of undefined, the offline rendering
rawError(failedStep) ==
    CASE failedStep = "read" -> "NotReadableError"
      [] failedStep = "decode" -> "EncodingError"
      [] failedStep = "settings" -> "TypeError"
      [] OTHER -> "RenderingError"

\* (mutant: the catch block logs the error and does not rethrow it)
failRunMutant(variant, failedStep) == [pc |-> "done", error |-> "none"]

\* a step of the run fails: the async function's promise rejects, with
\* new Error(...) where the function has a catch block (and where
\* fileToAudioBuffer makes the error), with the error itself in compressor.js
failRun(variant, failedStep) ==
    [pc |-> "failed",
     error |-> IF variant = "compressAudio_js" THEN rawError(failedStep)
               ELSE "Error"]

compressVars ==
    <<qualityLevel, qualitySettings, graph, progress, interval, ticks>>

\* ------------------------------------------- DistortionEngine.addDistortion
AddDistortionStart ==
    /\ entry = "addDistortion" /\ pc = "start"
    /\ progressLog' = onProgress(progressLog, 0)
    /\ reads' = reads + 1
    /\ pc' = "reading"
    /\ UNCHANGED <<failure, error, decodes>>
    /\ UNCHANGED <<entry, file, heap, audioBuffer, original, renderedBuffer,
                   processedBuffer, settings, step, rng, wav>>
    /\ UNCHANGED compressVars
    /\ UNCHANGED uiVars

\* reader.onload: the file's bytes are handed to decodeAudioData
AddDistortionFileRead ==
    /\ entry = "addDistortion" /\ pc = "reading"
    /\ decodes' = decodes + 1
    /\ pc' = "decoding"
    /\ UNCHANGED <<entry, file, heap, audioBuffer, original, renderedBuffer,
                   processedBuffer, settings, step, progressLog, rng, wav>>
    /\ UNCHANGED compressVars
    /\ UNCHANGED <<failure, error, reads>>
    /\ UNCHANGED uiVars

\* reader.onerror: fileToAudioBuffer rejects, the catch block rethrows
AddDistortionReadFailed ==
    /\ entry = "addDistortion" /\ pc = "reading"
    /\ failure' = "read"
    /\ pc' = failRun(entry, "read").pc
    /\ error' = failRun(entry, "read").error
    /\ UNCHANGED <<entry, file, heap, audioBuffer, original, renderedBuffer,
                   processedBuffer, settings, step, progressLog, rng, wav>>
    /\ UNCHANGED compressVars
    /\ UNCHANGED <<reads, decodes>>
    /\ UNCHANGED uiVars

\* fileToAudioBuffer resolves; onProgress(20); processAudioBuffer creates the
\* output buffer and enters its step loop
AddDistortionDecoded ==
    /\ entry = "addDistortion" /\ pc = "decoding"
    /\ LET h1 == Append(heap, decodedBuffer(file))
           src == Len(h1)
           b == h1[src]
       IN  /\ audioBuffer' = src
           /\ original' = b.data
           /\ heap' = createBuffer(h1, src, b.numberOfChannels, b.length,
                                   b.sampleRate)
           /\ processedBuffer' = createBufferId(h1, src)
    /\ progressLog' = onProgress(progressLog, 20 * PSCALE)
    /\ step' = 0
    /\ pc' = "processing"
    /\ UNCHANGED <<entry, file, renderedBuffer, settings, rng, wav>>
    /\ UNCHANGED compressVars
    /\ UNCHANGED failVars
    /\ UNCHANGED uiVars

\* decodeAudioData rejects (undecodable data): fileToAudioBuffer rejects, the
\* catch block rethrows, the promise of addDistortion rejects
AddDistortionDecodeFailed ==
    /\ entry = "addDistortion" /\ pc = "decoding"
    /\ failure' = "decode"
    /\ pc' = failRun(entry, "decode").pc
    /\ error' = failRun(entry, "decode").error
    /\ UNCHANGED <<reads, decodes>>
    /\ UNCHANGED <<entry, file, heap, audioBuffer, original, renderedBuffer,
                   processedBuffer, settings, step, progressLog, rng, wav>>
    /\ UNCHANGED compressVars
    /\ UNCHANGED uiVars

\* one iteration of the step loop of processAudioBuffer
ProcessStep ==
    /\ entry = "addDistortion" /\ pc = "processing"
    /\ step < totalSteps
    /\ LET res == processStep(heap, audioBuffer, processedBuffer, settings,
                              rng, step)
       IN  /\ heap' = res.heap
           /\ rng' = res.rng
    /\ progressLog' = onProgress(progressLog, stepProgress(step))
    /\ step' = step + 1
    /\ UNCHANGED <<entry, pc, file, audioBuffer, original, renderedBuffer,
                   processedBuffer, settings, wav>>
    /\ UNCHANGED compressVars
    /\ UNCHANGED failVars
    /\ UNCHANGED uiVars

\* the loop is over: processAudioBuffer returns, onProgress(100), bufferToWav
AddDistortionFinish ==
    /\ entry = "addDistortion" /\ pc = "processing"
    /\ step >= totalSteps
    /\ progressLog' = onProgress(progressLog, 100 * PSCALE)
    /\ wav' = bufferToWav(heap[processedBuffer])
    /\ pc' = "done"
    /\ UNCHANGED <<entry, file, heap, audioBuffer, original, renderedBuffer,
                   processedBuffer, settings, step, rng>>
    /\ UNCHANGED compressVars
    /\ UNCHANGED failVars
    /\ UNCHANGED uiVars

\* --------------------------------------------- AudioCompressor.compressAudio
engineVars == <<settings, step, rng, processedBuffer>>

\* compressAudio is called: fileToAudioBuffer is awaited
CompressStart ==
    /\ entry \in CompressEntries /\ pc = "start"
    /\ reads' = reads + 1
    /\ pc' = "reading"
    /\ UNCHANGED <<failure, error, decodes>>
    /\ UNCHANGED <<entry, file, heap, audioBuffer, original, renderedBuffer,
                   progressLog, wav>>
    /\ UNCHANGED engineVars
    /\ UNCHANGED compressVars
    /\ UNCHANGED uiVars

\* the file is read: its bytes are handed to decodeAudioData
CompressFileRead ==
    /\ entry \in CompressEntries /\ pc = "reading"
    /\ decodes' = decodes + 1
    /\ pc' = "decoding"
    /\ UNCHANGED <<entry, file, heap, audioBuffer, original, renderedBuffer,
                   progressLog, wav>>
    /\ UNCHANGED engineVars
    /\ UNCHANGED compressVars
    /\ UNCHANGED <<failure, error, reads>>
    /\ UNCHANGED uiVars

\* reading the file fails: fileToAudioBuffer rejects
CompressReadFailed ==
    /\ entry \in CompressEntries /\ pc = "reading"
    /\ failure' = "read"
    /\ pc' = failRun(entry, "read").pc
    /\ error' = failRun(entry, "read").error
    /\ UNCHANGED <<entry, file, heap, audioBuffer, original, renderedBuffer,
                   progressLog, wav>>
    /\ UNCHANGED engineVars
    /\ UNCHANGED compressVars
    /\ UNCHANGED <<reads, decodes>>
    /\ UNCHANGED uiVars

\* the file is decoded: the settings are looked up, the OfflineAudioContext
\* and the graph are built, the progress interval is set and rendering starts.
\* Reading a property of an undefined settings object throws a TypeError.
CompressDecoded ==
    /\ entry \in CompressEntries /\ pc = "decoding"
    /\ heap' = Append(heap, decodedBuffer(file))
    /\ audioBuffer' = Len(heap) + 1
    /\ qualitySettings' = getQualitySettings(entry, qualityLevel)
    /\ LET s == getQualitySettings(entry, qualityLevel)
       IN  IF s.defined
           THEN /\ graph' = audioGraph(entry, s.distortion)
                /\ progress' = 0
                /\ interval' = TRUE
                /\ pc' = "rendering"
                /\ UNCHANGED <<failure, error>>
           ELSE /\ failure' = "settings"
                /\ pc' = failRun(entry, "settings").pc
                /\ error' = failRun(entry, "settings").error
                /\ UNCHANGED <<graph, progress, interval>>
    /\ UNCHANGED <<reads, decodes>>
    /\ UNCHANGED <<entry, file, original, renderedBuffer, progressLog, wav,
                   qualityLevel, ticks>>
    /\ UNCHANGED engineVars
    /\ UNCHANGED uiVars

CompressDecodeFailed ==
    /\ entry \in CompressEntries /\ pc = "decoding"
    /\ failure' = "decode"
    /\ pc' = failRun(entry, "decode").pc
    /\ error' = failRun(entry, "decode").error
    /\ UNCHANGED <<reads, decodes>>
    /\ UNCHANGED <<entry, file, heap, audioBuffer, original, renderedBuffer,
                   progressLog, wav>>
    /\ UNCHANGED engineVars
    /\ UNCHANGED compressVars
    /\ UNCHANGED uiVars

\* the callback given to setInterval runs
IntervalTick ==
    /\ entry \in CompressEntries /\ interval
    /\ ticks < MaxTicks
    /\ ticks' = ticks + 1
    /\ progress' = tickProgress(entry, progress)
    /\ IF entry = "compressAudio_js" /\ progress' > 100
       THEN /\ interval' = FALSE
            /\ UNCHANGED progressLog
       ELSE /\ progressLog' = onProgress(progressLog, progress' * PSCALE)
            /\ UNCHANGED interval
    /\ UNCHANGED <<entry, pc, file, heap, audioBuffer, original, renderedBuffer,
                   wav, qualityLevel, qualitySettings, graph>>
    /\ UNCHANGED engineVars
    /\ UNCHANGED failVars
    /\ UNCHANGED uiVars

\* what the offline rendering yields: a buffer of the context's channel count,
\* length and sample rate; silence when the source reaches no destination
\* (and, in RenderResolved, when the source is a file of silence rendered
\* through gain and compressor alone)
renderedData(g, channels, length, base) ==
    IF sourceReachesDestination(g) THEN MakeData(channels, length, base)
    ELSE ZeroData(channels, length)

\* startRendering resolves: the interval is cleared, onProgress(100), and the
\* result is quantized (create3BitAudio) and encoded
RenderResolved ==
    /\ entry \in CompressEntries /\ pc = "rendering"
    /\ \E base \in (IF file.base = SilentBase THEN {SilentBase}
                    ELSE 0 .. NumBases - 1) :
        LET b == heap[audioBuffer]
            length == renderLength(entry, b)
            rendered == AudioBufferOf(
                            b.numberOfChannels, length,
                            renderSampleRate(entry, b.sampleRate),
                            renderedData(graph, b.numberOfChannels, length, base))
            h1 == Append(heap, rendered)
            src == Len(h1)
        IN  /\ renderedBuffer' = src
            /\ original' = rendered.data
            /\ IF entry = "compressAudio_js"
               THEN /\ heap' = h1
                    /\ processedBuffer' = src
                    /\ wav' = bufferToWav(h1[src])
               ELSE LET q == create3BitAudio(entry, h1, src)
                    IN  /\ heap' = q.heap
                        /\ processedBuffer' = q.compressedBuffer
                        /\ wav' = bufferToWav(q.heap[q.compressedBuffer])
    /\ interval' = FALSE
    /\ progressLog' = onProgress(progressLog, 100 * PSCALE)
    /\ pc' = "done"
    /\ UNCHANGED <<entry, file, audioBuffer, settings, step, rng,
                   qualityLevel, qualitySettings, graph, progress, ticks>>
    /\ UNCHANGED failVars
    /\ UNCHANGED uiVars

\* startRendering rejects: the statements after the await are skipped
RenderRejected ==
    /\ entry \in CompressEntries /\ pc = "rendering"
    /\ failure' = "render"
    /\ pc' = failRun(entry, "render").pc
    /\ error' = failRun(entry, "render").error
    /\ UNCHANGED <<reads, decodes>>
    /\ UNCHANGED <<entry, file, heap, audioBuffer, original, renderedBuffer,
                   progressLog, wav>>
    /\ UNCHANGED engineVars
    /\ UNCHANGED compressVars
    /\ UNCHANGED uiVars

\* ------------------------------------------------------ processAudio (part_002)
ProcessAudioStart ==
    /\ entry = "processAudio_part002" /\ pc = "start"
    /\ pc' = "decoding"
    /\ UNCHANGED <<entry, file, heap, audioBuffer, original, renderedBuffer,
                   progressLog, wav>>
    /\ UNCHANGED engineVars
    /\ UNCHANGED compressVars
    /\ UNCHANGED failVars
    /\ UNCHANGED uiVars

ProcessAudioDecoded ==
    /\ entry = "processAudio_part002" /\ pc = "decoding"
    /\ LET h1 == Append(heap, decodedBuffer(file))
           src == Len(h1)
           res == processAudio_part002(h1, src)
       IN  /\ audioBuffer' = src
           /\ original' = h1[src].data
           /\ heap' = res.heap
           /\ processedBuffer' = res.processed
           /\ wav' = bufferToWav(res.heap[res.processed])
    /\ pc' = "done"
    /\ UNCHANGED <<entry, file, renderedBuffer, progressLog, settings, step, rng>>
    /\ UNCHANGED compressVars
    /\ UNCHANGED failVars
    /\ UNCHANGED uiVars

ProcessAudioFailed ==
    /\ entry = "processAudio_part002" /\ pc = "decoding"
    /\ pc' = "failed"
    /\ UNCHANGED <<entry, file, heap, audioBuffer, original, renderedBuffer,
                   progressLog, wav>>
    /\ UNCHANGED engineVars
    /\ UNCHANGED compressVars
    /\ UNCHANGED failVars
    /\ UNCHANGED uiVars

\* --------------------------------- DistortionEngine.addDistortion (part_001)
\* applyDistortionChain(source, context, settings, onProgress): the connect()
\* calls it makes and the node it returns; onProgress is not used
applyDistortionChain(s) ==
    LET main ==
            CASE s.type \in {"digital", "analog", "crushed"} ->
                    [edges |-> {<<"source", "shaper">>}, signal |-> "shaper"]
              [] s.type = "radio" ->
                    [edges |-> {<<"source", "filter">>, <<"filter", "shaper">>},
                     signal |-> "shaper"]
              [] s.type = "glitch" ->
                    [edges |-> {<<"source", "scriptNode">>},
                     signal |-> "scriptNode"]
              [] OTHER -> [edges |-> {}, signal |-> "source"]
        noise ==
            IF s.noise
            THEN [edges |-> main.edges \cup {<<main.signal, "noiseNode">>},
                  signal |-> "noiseNode"]
            ELSE main
    IN  IF s.crackle
        THEN [edges |-> noise.edges \cup {<<noise.signal, "crackleNode">>},
              signal |-> "crackleNode"]
        ELSE noise

Part001Start ==
    /\ entry = "addDistortion_part001" /\ pc = "start"
    /\ pc' = "decoding"
    /\ UNCHANGED <<entry, file, heap, audioBuffer, original, renderedBuffer,
                   progressLog, wav>>
    /\ UNCHANGED engineVars
    /\ UNCHANGED compressVars
    /\ UNCHANGED failVars
    /\ UNCHANGED uiVars

\* the file is decoded: the chain is built and connected to the destination,
\* rendering starts
Part001Decoded ==
    /\ entry = "addDistortion_part001" /\ pc = "decoding"
    /\ heap' = Append(heap, decodedBuffer(file))
    /\ audioBuffer' = Len(heap) + 1
    /\ LET chain == applyDistortionChain(settings)
       IN  graph' = chain.edges \cup {<<chain.signal, "destination">>}
    /\ pc' = "rendering"
    /\ UNCHANGED <<entry, file, original, renderedBuffer, progressLog, wav,
                   qualityLevel, qualitySettings, progress, interval, ticks>>
    /\ UNCHANGED engineVars
    /\ UNCHANGED failVars
    /\ UNCHANGED uiVars

Part001DecodeFailed ==
    /\ entry = "addDistortion_part001" /\ pc = "decoding"
    /\ failure' = "decode"
    /\ pc' = failRun(entry, "decode").pc
    /\ error' = failRun(entry, "decode").error
    /\ UNCHANGED <<reads, decodes>>
    /\ UNCHANGED <<entry, file, heap, audioBuffer, original, renderedBuffer,
                   progressLog, wav>>
    /\ UNCHANGED engineVars
    /\ UNCHANGED compressVars
    /\ UNCHANGED uiVars

\* startRendering resolves: return this.bufferToWav(renderedBuffer)
Part001RenderResolved ==
    /\ entry = "addDistortion_part001" /\ pc = "rendering"
    /\ \E base \in 0 .. NumBases - 1 :
        LET b == heap[audioBuffer]
            rendered == AudioBufferOf(
                            b.numberOfChannels, b.length, b.sampleRate,
                            renderedData(graph, b.numberOfChannels, b.length,
                                         base))
            h1 == Append(heap, rendered)
        IN  /\ renderedBuffer' = Len(h1)
            /\ processedBuffer' = Len(h1)
            /\ original' = rendered.data
            /\ heap' = h1
            /\ wav' = bufferToWav(rendered)
    /\ pc' = "done"
    /\ UNCHANGED <<entry, file, audioBuffer, progressLog, settings, step, rng>>
    /\ UNCHANGED compressVars
    /\ UNCHANGED failVars
    /\ UNCHANGED uiVars

Part001RenderRejected ==
    /\ entry = "addDistortion_part001" /\ pc = "rendering"
    /\ failure' = "render"
    /\ pc' = failRun(entry, "render").pc
    /\ error' = failRun(entry, "render").error
    /\ UNCHANGED <<reads, decodes>>
    /\ UNCHANGED <<entry, file, heap, audioBuffer, original, renderedBuffer,
                   progressLog, wav>>
    /\ UNCHANGED engineVars
    /\ UNCHANGED compressVars
    /\ UNCHANGED uiVars

\* ------------------------------------ the methods called on a given buffer
CallCreate3BitAudio ==
    /\ entry \in {"create3BitAudio_app", "create3BitAudio_part000"}
    /\ pc = "start"
    /\ LET q == create3BitAudio(entry, heap, audioBuffer)
       IN  /\ heap' = q.heap
           /\ processedBuffer' = q.compressedBuffer
           /\ wav' = bufferToWav(q.heap[q.compressedBuffer])
    /\ pc' = "done"
    /\ UNCHANGED <<entry, file, audioBuffer, original, renderedBuffer,
                   progressLog, settings, step, rng>>
    /\ UNCHANGED compressVars
    /\ UNCHANGED failVars
    /\ UNCHANGED uiVars

CallBufferToWav ==
    /\ entry = "bufferToWav" /\ pc = "start"
    /\ wav' = bufferToWav(heap[audioBuffer])
    /\ pc' = "done"
    /\ UNCHANGED <<entry, file, heap, audioBuffer, original, renderedBuffer,
                   progressLog>>
    /\ UNCHANGED engineVars
    /\ UNCHANGED compressVars
    /\ UNCHANGED failVars
    /\ UNCHANGED uiVars

\* ---------------------------------------------------------- specification
Next ==
    \/ AddDistortionStart
    \/ AddDistortionFileRead
    \/ AddDistortionReadFailed
    \/ AddDistortionDecoded
    \/ AddDistortionDecodeFailed
    \/ ProcessStep
    \/ AddDistortionFinish
    \/ CompressStart
    \/ CompressFileRead
    \/ CompressReadFailed
    \/ CompressDecoded
    \/ CompressDecodeFailed
    \/ IntervalTick
    \/ RenderResolved
    \/ RenderRejected
    \/ ProcessAudioStart
    \/ ProcessAudioDecoded
    \/ ProcessAudioFailed
    \/ Part001Start
    \/ Part001Decoded
    \/ Part001DecodeFailed
    \/ Part001RenderResolved
    \/ Part001RenderRejected
    \/ CallCreate3BitAudio
    \/ CallBufferToWav

Spec == Init /\ [][Next]_vars

\* ------------------------------------------------- the user interfaces
\* The page scripts that take a file from the user and hand it to an engine:
\* DistortionUI and AudioUI (app.js), DistortionUI (part_001), the functions
\* handleFile / processAudio (part_002), DistortionUI and the functions
\* handleAudioFile / compressAudio (part_003).
UIVariants == {"DistortionUI_app", "AudioUI_app", "AudioUI_part000",
               "DistortionUI_part001", "handleFile_part002",
               "DistortionUI_part003", "handleAudioFile_part003"}

\* file.type: a MIME type "major/minor", or "" when the browser knows none
FileTypes == {<<"audio", "mpeg">>, <<"text", "plain">>, <<"", "">>}

UIFiles == [name : 1 .. NumFileNames, type : FileTypes, present : {TRUE}]

\* file.type.startsWith('audio/')
startsWithAudio(type) == type[1] = "audio"

\* whether handleFile returns early on the file (alert or log, no selection)
handleFileRejects(variant, f) ==
    IF variant = "handleFile_part002" THEN ~f.present
    ELSE ~f.present \/ ~startsWithAudio(f.type)

runVars == <<entry, pc, file, heap, audioBuffer, original, renderedBuffer,
             processedBuffer, settings, qualityLevel, qualitySettings, step,
             progressLog, rng, wav, graph, progress, interval, ticks,
             failure, error, reads, decodes>>

UIInit ==
    /\ uiVariant \in UIVariants
    /\ selectedFile = NoFile
    /\ passed = {}
    /\ rejected = {}
    /\ pageLoaded
    /\ entry = "ui"
    /\ pc = "start"
    /\ file = [channels |-> 1, length |-> 0, rate |-> 44100, base |-> 0]
    /\ heap = <<>>
    /\ audioBuffer = NoBuffer
    /\ original = <<>>
    /\ renderedBuffer = NoBuffer
    /\ processedBuffer = NoBuffer
    /\ settings = DefaultSettings
    /\ qualityLevel = 3
    /\ qualitySettings = Undefined
    /\ step = 0
    /\ progressLog = <<>>
    /\ rng = [state |-> 0, calls |-> 0]
    /\ wav = NoWav
    /\ graph = {}
    /\ progress = 0
    /\ interval = FALSE
    /\ ticks = 0
    /\ failure = "none"
    /\ error = "none"
    /\ reads = 0
    /\ decodes = 0

\* el.style.display = 'block' / showElement(el), for each panel of names
showElement(p, names) == [n \in PanelNames |-> (n \in names) \/ p[n]]

\* el.style.display = 'none' / hideElement(el), for each panel of names
hideElement(p, names) == [n \in PanelNames |-> (n \notin names) /\ p[n]]

DistortionUIs == {"DistortionUI_app", "DistortionUI_part001",
                  "DistortionUI_part003"}

AudioUIs == {"AudioUI_app", "AudioUI_part000"}

\* the panels handleFile hides once it has accepted the file (it shows the
\* controls panel in every variant)
handleFileHides(variant) ==
    CASE variant = "AudioUI_part000" -> {"progress", "result"}
      [] variant = "DistortionUI_part001" -> {"result"}
      [] variant = "DistortionUI_part003" -> {"result", "progress"}
      [] OTHER -> {}

\* the panels the start of a run hides and shows
startHides(variant) ==
    CASE variant \in AudioUIs \cup {"handleAudioFile_part003"} ->
            {"controls", "result"}
      [] variant = "DistortionUI_part001" -> {}
      [] OTHER -> {"controls"}

startShows(variant) ==
    IF variant = "DistortionUI_part001" THEN {} ELSE {"progress"}

\* the panels the try branch (after the await) and the catch branch change
settleHides(variant) ==
    IF variant = "DistortionUI_part001" THEN {} ELSE {"progress"}

catchShows(variant) ==
    IF variant = "DistortionUI_part001" THEN {} ELSE {"controls"}

\* the argument in the place of the engine's onProgress parameter
progressCallback(variant) ==
    IF variant \in AudioUIs THEN "null" ELSE "function"

\* whether the engine's promise resolves, given that decoding and rendering
\* succeed or not: onProgress(...) inside the engine's try block throws a
\* TypeError when onProgress is null
engineResolves(variant, ok) == ok /\ progressCallback(variant) = "function"

\* the process / compress button lies in the controls panel: it can be
\* clicked while that panel is displayed and the button is not disabled
processClickable == panels["controls"] /\ ~processDisabled

\* the download button lies in the result panel
downloadClickable == panels["result"]

\* the change / drop listener: handleFile(files[0]).  The listeners of
\* handleAudioFile (part_003) call it only when the file list is not empty.
HandleFile ==
    /\ uiVariant \in UIVariants
    /\ \E f \in UIFiles \cup {NoFile} :
        /\ uiVariant = "handleAudioFile_part003" => f.present
        /\ IF handleFileRejects(uiVariant, f)
           THEN /\ rejected' = rejected \cup {f}
                /\ UNCHANGED <<selectedFile, panels>>
           ELSE /\ selectedFile' = f
                /\ panels' = hideElement(showElement(panels, {"controls"}),
                                         handleFileHides(uiVariant))
                /\ UNCHANGED rejected
    /\ UNCHANGED <<uiVariant, passed, processDisabled, enableTimer, runs,
                   started, blob, settled, download>>
    /\ UNCHANGED runVars

\* a click on the process / compress button: the selected file (in part_002
\* the file the button's onclick closure was bound to) goes to the engine;
\* without a selected file nothing is started.  The handler runs up to its
\* await: the panels are switched and, in DistortionUI, the button disabled.
ClickProcess ==
    /\ uiVariant \in UIVariants
    /\ processClickable
    /\ selectedFile # NoFile
    /\ started < MaxRuns
    /\ passed' = passed \cup {selectedFile}
    /\ started' = started + 1
    /\ runs' = runs \cup {[id |-> started + 1, file |-> selectedFile]}
    /\ panels' = showElement(hideElement(panels, startHides(uiVariant)),
                             startShows(uiVariant))
    /\ processDisabled' = (processDisabled \/ uiVariant \in DistortionUIs)
    /\ UNCHANGED <<uiVariant, selectedFile, rejected, enableTimer, blob,
                   settled, download>>
    /\ UNCHANGED runVars

\* the engine's promise settles and the handler goes on after its await:
\* ok tells whether decoding and rendering both succeeded
RunSettles ==
    /\ uiVariant \in UIVariants
    /\ \E r \in runs : \E ok \in BOOLEAN :
        /\ runs' = runs \ {r}
        /\ IF engineResolves(uiVariant, ok)
           THEN /\ blob' = r.file
                /\ panels' = hideElement(showElement(panels, {"result"}),
                                         settleHides(uiVariant))
                /\ settled' = [id |-> r.id, file |-> r.file, ok |-> ok,
                               branch |-> "try"]
                /\ IF uiVariant = "DistortionUI_part001"
                   THEN enableTimer' = TRUE /\ UNCHANGED processDisabled
                   ELSE /\ processDisabled'
                           = (processDisabled /\ uiVariant \notin DistortionUIs)
                        /\ UNCHANGED enableTimer
           ELSE /\ panels' = hideElement(
                                showElement(panels, catchShows(uiVariant)),
                                settleHides(uiVariant))
                /\ settled' = [id |-> r.id, file |-> r.file, ok |-> ok,
                               branch |-> "catch"]
                /\ processDisabled'
                   = (processDisabled /\ uiVariant \notin DistortionUIs)
                /\ UNCHANGED <<blob, enableTimer>>
    /\ UNCHANGED <<uiVariant, selectedFile, passed, rejected, started,
                   download>>
    /\ UNCHANGED runVars

\* the setTimeout callback of DistortionUI.processAudio (part_001), two
\* seconds after a successful run: the button is enabled again
EnableTimerFires ==
    /\ uiVariant = "DistortionUI_part001" /\ enableTimer
    /\ enableTimer' = FALSE
    /\ processDisabled' = FALSE
    /\ UNCHANGED <<uiVariant, selectedFile, passed, rejected, panels, runs,
                   started, blob, settled>>
    /\ UNCHANGED download
    /\ UNCHANGED runVars

\* the name the download handler builds the file name from: the file of the
\* closure in part_002, this.selectedFile / selectedFile, read at the time
\* of the click, everywhere else
downloadName ==
    IF uiVariant = "handleFile_part002" THEN blob.name ELSE selectedFile.name

\* a click on the download button, a result being stored
Download ==
    /\ uiVariant \in UIVariants
    /\ downloadClickable
    /\ blob # NoFile
    /\ download' = [blob |-> blob, name |-> downloadName]
    /\ UNCHANGED <<uiVariant, selectedFile, passed, rejected, panels,
                   processDisabled, enableTimer, runs, started, blob, settled>>
    /\ UNCHANGED runVars

UINext ==
    \/ HandleFile
    \/ ClickProcess
    \/ RunSettles
    \/ EnableTimerFires
    \/ Download

UISpec == UIInit /\ [][UINext]_vars

\* ------------------------------------------------------------- properties
Channels(b) == 0 .. b.numberOfChannels - 1

Frames(b) == 0 .. b.length - 1

\* the buffer handed to the transform of the run (processAudioBuffer, the
\* inline loop of processAudio, or create3BitAudio)
inputBuffer ==
    IF entry \in {"compressAudio_app", "compressAudio_part000"}
    THEN renderedBuffer ELSE audioBuffer

\* the buffer whose samples were encoded into wav
encodedBuffer ==
    IF entry = "bufferToWav" THEN heap[audioBuffer] ELSE heap[processedBuffer]

NonDecreasing(log) == \A k \in 1 .. Len(log) - 1 : log[k] <= log[k + 1]

\* C1: in every run of DistortionEngine.addDistortion, for every buffer
\* length and channel count, the values passed to onProgress never decrease,
\* the first one is 0 and, once the run has succeeded, the last one is 100.
C1_ProgressMonotone ==
    entry = "addDistortion" =>
        /\ NonDecreasing(progressLog)
        /\ (progressLog # <<>> => progressLog[1] = 0)
        /\ (pc # "start" => progressLog # <<>>)
        /\ (pc = "done" => progressLog[Len(progressLog)] = 100 * PSCALE)

\* a successful run on a two-channel buffer shorter than totalSteps, all
\* step callbacks made
C1_Witness ==
    /\ entry = "addDistortion" /\ pc = "done"
    /\ heap[audioBuffer].length = 50
    /\ heap[audioBuffer].numberOfChannels = 2
    /\ Len(progressLog) = totalSteps + 3

\* C2: processAudioBuffer transforms the entire buffer: with noise, crackle
\* and glitch off, after the run every output frame i of every channel holds
\* clamp(applyMainDistortion(input[i])), whatever the buffer length.
C2_WholeBufferTransformed ==
    (entry = "addDistortion" /\ pc = "done" /\ ~usesRandom(settings)) =>
        \A c \in Channels(heap[audioBuffer]) :
            \A i \in Frames(heap[audioBuffer]) :
                heap[processedBuffer].data[c][i] =
                    Clamp(applyMainDistortion(heap[audioBuffer].data[c][i],
                                              settings, rng).value)

\* C3: every sample of the buffer written by processAudioBuffer and by
\* create3BitAudio (both variants) lies in [-1, 1], for any input samples
\* (also outside [-1, 1]) and any settings.
C3_OutputInRange ==
    (processedBuffer # NoBuffer
     /\ entry \in {"addDistortion", "compressAudio_app", "compressAudio_part000",
                   "create3BitAudio_app", "create3BitAudio_part000"}) =>
        \A c \in Channels(heap[processedBuffer]) :
            \A i \in Frames(heap[processedBuffer]) :
                /\ heap[processedBuffer].data[c][i] >= -SCALE
                /\ heap[processedBuffer].data[c][i] <= SCALE

\* an input sample above 1.0, passed through unchanged by the distortion and
\* with noise added, was stored as exactly 1.0
C3_Witness ==
    /\ entry = "addDistortion" /\ pc = "done"
    /\ settings.type = "none" /\ settings.noise /\ settings.intensity = 10
    /\ \E c \in Channels(heap[audioBuffer]) :
         \E i \in Frames(heap[audioBuffer]) :
            /\ original[c][i] > SCALE
            /\ heap[processedBuffer].data[c][i] = SCALE

\* C4: compressAudio (app.js) keeps the channel count, keeps the frame count
\* when the render rate equals the source rate, and otherwise yields a frame
\* count scaled by renderRate / sourceRate (to within one frame).
C4_FrameCountScales ==
    (entry = "compressAudio_app" /\ pc = "done") =>
        LET in == heap[audioBuffer]
            out == heap[processedBuffer]
        IN  /\ out.numberOfChannels = in.numberOfChannels
            /\ IF out.sampleRate = in.sampleRate
               THEN out.length = in.length
               ELSE Abs(out.length * in.sampleRate - in.length * out.sampleRate)
                        < in.sampleRate

\* C5: processing is never in place: once the transform has its output
\* buffer, that buffer is another object than the input buffer, and every
\* sample of the input buffer is what it was when it was handed over.
C5_InputPreserved ==
    (processedBuffer # NoBuffer
     /\ entry \in {"addDistortion", "processAudio_part002",
                   "compressAudio_app", "compressAudio_part000",
                   "create3BitAudio_app", "create3BitAudio_part000"}) =>
        /\ processedBuffer # inputBuffer
        /\ heap[inputBuffer].data = original

\* a finished run whose output differs from its input
C5_Witness ==
    /\ entry = "addDistortion" /\ pc = "done"
    /\ heap[audioBuffer].length = 100
    /\ \E c \in Channels(heap[audioBuffer]) :
         \E i \in Frames(heap[audioBuffer]) :
            heap[processedBuffer].data[c][i] # heap[audioBuffer].data[c][i]

\* C6: create3BitAudio maps every sample x in [-1, 1] to the level
\* -1 + 2*index/7 with index = round((x + 1) / 2 * 7) clamped to 0..7 (the
\* levels compared to the three decimals the tables are written with); so
\* 1.0 goes to 1.0 and -1.0 to -1.0.
C6_NearestEvenLevel ==
    (entry \in {"create3BitAudio_app", "create3BitAudio_part000"}
     /\ pc = "done") =>
        \A c \in Channels(heap[audioBuffer]) :
            \A i \in Frames(heap[audioBuffer]) :
                LET x == heap[audioBuffer].data[c][i]
                    index == Max(0, Min(7, MathRound((x + SCALE) * 7, 2 * SCALE)))
                    y == heap[processedBuffer].data[c][i]
                IN  (x >= -SCALE /\ x <= SCALE) =>
                        Abs(7 * y - (2 * SCALE * index - 7 * SCALE)) <= 7

\* C7: the quantizer of create3BitAudio is idempotent: quantizing one of its
\* outputs again yields that output, in both variants.
C7_QuantizeIdempotent ==
    (entry \in {"create3BitAudio_app", "create3BitAudio_part000"}
     /\ pc = "done") =>
        \A c \in Channels(heap[processedBuffer]) :
            \A i \in Frames(heap[processedBuffer]) :
                quantize(entry, heap[processedBuffer].data[c][i])
                    = heap[processedBuffer].data[c][i]

\* C8: every 16-bit sample of the WAV data is the integer nearest to
\* clamp(sample, -1, 1) * 32767.
C8_SamplesRounded ==
    wav # NoWav =>
        \A c \in Channels(encodedBuffer) :
            \A i \in Frames(encodedBuffer) :
                i16At(wav.bytes,
                      headerSize + 2 * (i * encodedBuffer.numberOfChannels + c))
                    = MathRound(Clamp(encodedBuffer.data[c][i]) * 32767, SCALE)

\* C9: the encoder produces exactly 44 + F*C*2 bytes, and the header fields
\* are ChunkSize = 36 + F*C*2, Subchunk1Size = 16, AudioFormat = 1,
\* NumChannels = C, SampleRate = R, ByteRate = R*C*2, BlockAlign = C*2,
\* BitsPerSample = 16, Subchunk2Size = F*C*2.
C9_HeaderFields ==
    wav # NoWav =>
        LET F == encodedBuffer.length
            C == encodedBuffer.numberOfChannels
            R == encodedBuffer.sampleRate
        IN  /\ wav.ok
            /\ wav.size = 44 + F * C * 2
            /\ Len(wav.bytes) = 44 + F * C * 2
            /\ u32At(wav.bytes, 4) = 36 + F * C * 2
            /\ u32At(wav.bytes, 16) = 16
            /\ u16At(wav.bytes, 20) = 1
            /\ u16At(wav.bytes, 22) = C
            /\ u32At(wav.bytes, 24) = R
            /\ u32At(wav.bytes, 28) = R * C * 2
            /\ u16At(wav.bytes, 32) = C * 2
            /\ u16At(wav.bytes, 34) = 16
            /\ u32At(wav.bytes, 40) = F * C * 2

\* bufferToWav was called on a two-channel buffer of three frames at 48 kHz
C9_Witness ==
    /\ entry = "bufferToWav" /\ pc = "done"
    /\ heap[audioBuffer].length = 3
    /\ heap[audioBuffer].numberOfChannels = 2
    /\ heap[audioBuffer].sampleRate = 48000
    /\ wav.size = 56

\* C10: the data is frame-major, channel-minor: the sample of frame i,
\* channel c is stored at byte offset 44 + 2*(i*C + c); every data byte is
\* stored to exactly once; no store falls outside the buffer; and the offset
\* after the last sample is the buffer size 44 + dataLength.
C10_FrameMajorLayout ==
    wav # NoWav =>
        LET C == encodedBuffer.numberOfChannels
        IN  /\ wav.ok
            /\ \A c \in Channels(encodedBuffer) :
                 \A i \in Frames(encodedBuffer) :
                    i16At(wav.bytes, 44 + 2 * (i * C + c))
                        = sampleToInt16(Clamp(encodedBuffer.data[c][i]))
            /\ \A k \in 44 .. wav.size - 1 : wav.count[k + 1] = 1
            /\ wav.offset = wav.size
            /\ wav.size = 44 + encodedBuffer.length * C * 2

\* bufferToWav was called on two channels of three frames whose samples at
\* (frame 0, channel 1) and (frame 1, channel 0) differ
C10_Witness ==
    /\ entry = "bufferToWav" /\ pc = "done"
    /\ heap[audioBuffer].length = 3
    /\ heap[audioBuffer].numberOfChannels = 2
    /\ heap[audioBuffer].data[1][0] # heap[audioBuffer].data[0][1]
    /\ wav.offset = 56

\* reading a WAV file back: the fields of the header, the frame count from the
\* data size and the block size
parsedWav(bytes) ==
    [sampleRate |-> u32At(bytes, 24),
     channelCount |-> u16At(bytes, 22),
     frameCount |-> IF u16At(bytes, 32) = 0 THEN 0
                    ELSE u32At(bytes, 40) \div u16At(bytes, 32)]

\* the 16-bit value read back for frame i of channel c
parsedSample(bytes, c, i) ==
    i16At(bytes, headerSize + 2 * (i * u16At(bytes, 22) + c))

\* C11: the bytes produced by bufferToWav, parsed back, give the buffer's
\* sampleRate, channel count and frame count, and every decoded sample
\* (the 16-bit value divided by 32767) is within 1/32767 of the clamped
\* original sample.
C11_RoundTrip ==
    wav # NoWav =>
        LET p == parsedWav(wav.bytes)
        IN  /\ p.sampleRate = encodedBuffer.sampleRate
            /\ p.channelCount = encodedBuffer.numberOfChannels
            /\ p.frameCount = encodedBuffer.length
            /\ \A c \in Channels(encodedBuffer) :
                 \A i \in Frames(encodedBuffer) :
                    Abs(parsedSample(wav.bytes, c, i) * SCALE
                        - Clamp(encodedBuffer.data[c][i]) * 32767) <= SCALE

\* bufferToWav encoded a buffer that holds 1.0, a sample above 1.0 and a
\* sample (-0.571) whose 16-bit value is not exact
C11_Witness ==
    /\ entry = "bufferToWav" /\ pc = "done"
    /\ heap[audioBuffer].length = 3
    /\ \E c \in Channels(encodedBuffer) : \E i \in Frames(encodedBuffer) :
         /\ encodedBuffer.data[c][i] = -571
         /\ parsedSample(wav.bytes, c, i) = -18709
    /\ \E c \in Channels(encodedBuffer) : \E i \in Frames(encodedBuffer) :
         /\ encodedBuffer.data[c][i] = SCALE
         /\ parsedSample(wav.bytes, c, i) = 32767
    /\ \E c \in Channels(encodedBuffer) : \E i \in Frames(encodedBuffer) :
         /\ encodedBuffer.data[c][i] > SCALE
         /\ parsedSample(wav.bytes, c, i) = 32767

\* C12: in the timer-driven compressAudio variants, under every interleaving
\* of interval ticks with the completion (or failure) of offline rendering,
\* every value passed to onProgress lies in [0, 100] and none is smaller than
\* the value passed by the previous call of the run.
C12_TimerProgressBounded ==
    entry \in CompressEntries =>
        /\ \A k \in 1 .. Len(progressLog) :
             progressLog[k] >= 0 /\ progressLog[k] <= 100 * PSCALE
        /\ NonDecreasing(progressLog)

\* rendering completed after the interval had already reported its highest
\* value (100 in compressor.js, the cap 95 in app.js) more than once
C12_Witness ==
    /\ entry \in {"compressAudio_js", "compressAudio_app"} /\ pc = "done"
    /\ ticks >= 50
    /\ Len(progressLog) = ticks + 1
    /\ progressLog[Len(progressLog)] = 100 * PSCALE
    /\ progressLog[Len(progressLog) - 1]
         = (IF entry = "compressAudio_js" THEN 100 ELSE 95) * PSCALE

\* C13: every successful run of compressAudio (compressor.js, part_000) and
\* of addDistortion (part_001) has called the progress callback, with 0 as the
\* first value and 100 as the last.
C13_ProgressZeroFirstHundredLast ==
    (entry \in {"compressAudio_js", "compressAudio_part000",
                "addDistortion_part001"}
     /\ pc = "done") =>
        /\ progressLog # <<>>
        /\ progressLog[1] = 0
        /\ progressLog[Len(progressLog)] = 100 * PSCALE

\* C14: in every getQualitySettings variant the compression ratio does not
\* fall as the level rises: for levels a < b in 1..5, the ratio resolved
\* for b is at least the ratio resolved for a.
C14_RatioMonotone ==
    (entry \in CompressEntries /\ qualitySettings # Undefined) =>
        \A a \in 1 .. 5 :
            a < qualityLevel =>
                compressorRatio(entry, getQualitySettings(entry, a))
                    <= compressorRatio(entry, qualitySettings)

\* C15: in every getQualitySettings variant the resolved distortion amount
\* is zero for levels 1 to 3, non-zero for levels 4 and 5, and the amount of
\* level 5 is at least the amount of level 4.
C15_DistortionFromLevel4 ==
    (entry \in CompressEntries /\ qualitySettings # Undefined) =>
        /\ qualityLevel \in 1 .. 5
        /\ (qualityLevel \in 1 .. 3 => qualitySettings.distortion = 0)
        /\ (qualityLevel \in 4 .. 5 => qualitySettings.distortion > 0)
        /\ (qualityLevel = 4 =>
                getQualitySettings(entry, 5).distortion
                    >= qualitySettings.distortion)
        /\ (qualityLevel = 5 =>
                qualitySettings.distortion
                    >= getQualitySettings(entry, 4).distortion)

\* a run at level 5 of compressor.js completed with the distortion amount 50
\* and the wave shaper in the graph, and so did one at level 4 with 20
C15_Witness ==
    /\ entry = "compressAudio_js" /\ pc = "done"
    /\ qualityLevel \in 4 .. 5
    /\ qualitySettings.distortion = (IF qualityLevel = 5 THEN 50 ELSE 20)
    /\ <<"waveShaper", "destination">> \in graph

\* C16: for a quality level outside 1..5, getQualitySettings signals an
\* InvalidParameter error instead of returning a value, so that compressAudio
\* (its file read and decoded) fails with that error before any audio graph
\* is built and before any progress is reported.
C16_InvalidLevelSignalled ==
    (entry \in CompressEntries /\ qualityLevel \notin 1 .. 5
     /\ pc \in {"rendering", "done", "failed"}
     /\ failure \notin {"read", "decode"}) =>
        /\ pc = "failed"
        /\ error = "InvalidParameter"
        /\ graph = {}
        /\ progressLog = <<>>

\* C17: when reading the file, decoding it or a later step fails during
\* addDistortion or compressAudio (app.js), the promise rejects with an
\* error, no output bytes are returned, and nothing is retried: the file is
\* read at most once and decoded at most once in the run.
C17_FailureRejectsNoRetry ==
    entry \in {"addDistortion", "compressAudio_app"} =>
        /\ (failure # "none" =>
                pc = "failed" /\ error # "none" /\ wav = NoWav)
        /\ (pc = "failed" => failure # "none")
        /\ reads <= 1 /\ decodes <= reads
        /\ (failure = "read" => reads = 1 /\ decodes = 0)
        /\ (failure \in {"decode", "settings", "render"} =>
                reads = 1 /\ decodes = 1)

\* addDistortion failed in decoding after reporting 0, or compressAudio
\* failed in rendering after the interval had reported progress
C17_Witness ==
    /\ pc = "failed" /\ error = "Error" /\ wav = NoWav
    /\ \/ entry = "addDistortion" /\ failure = "decode"
          /\ progressLog = <<0>>
       \/ entry = "compressAudio_app" /\ failure = "render" /\ ticks > 0

\* C18: in every user interface variant, a missing file or a file whose
\* declared type is no audio type never becomes the selected file and is
\* never handed to decoding / processing, whatever is selected and clicked.
C18_InvalidFileNeverProcessed ==
    uiVariant \in UIVariants =>
        /\ selectedFile = NoFile \/ startsWithAudio(selectedFile.type)
        /\ \A f \in passed : f.present /\ startsWithAudio(f.type)

\* C19: with noise and crackle off and a type other than 'glitch', a second
\* run of processAudioBuffer on the same input buffer with the same settings,
\* whatever state Math.random is in, yields a buffer identical sample for
\* sample to the first run's, and neither run draws a random number.
C19_DeterministicWithoutRandom ==
    (entry = "addDistortion" /\ pc = "done" /\ ~usesRandom(settings)) =>
        /\ rng.calls = 0
        /\ \A seed \in 0 .. Min(NumSeeds, RngMod - 1) :
             LET again == processAudioBuffer(heap, audioBuffer, settings,
                                             [state |-> seed, calls |-> 0])
             IN  /\ again.rng.calls = 0
                 /\ again.output # processedBuffer
                 /\ again.heap[again.output].data
                      = heap[processedBuffer].data

\* a run with the 'crushed' distortion alone, on two channels of 100 frames,
\* whose output differs from its input
C19_Witness ==
    /\ entry = "addDistortion" /\ pc = "done"
    /\ settings.type = "crushed" /\ ~settings.noise /\ ~settings.crackle
    /\ heap[audioBuffer].length = 100
    /\ heap[audioBuffer].numberOfChannels = 2
    /\ heap[processedBuffer].data # heap[audioBuffer].data

\* whether every sample of buffer b is 0 (and there is at least one)
Silent(b) ==
    /\ b.length > 0
    /\ \A c \in Channels(b) : \A i \in Frames(b) : b.data[c][i] = 0

\* the runs that end in create3BitAudio
QuantizerEntries ==
    {"compressAudio_app", "compressAudio_part000",
     "create3BitAudio_app", "create3BitAudio_part000"}

\* C20 as claimed: when the buffer handed to the quantizer is all zeros,
\* every sample of the buffer produced by create3BitAudio is 0 and every
\* 16-bit sample of the encoded WAV is 0.
C20_SilenceInSilenceOut ==
    (entry \in QuantizerEntries /\ pc = "done" /\ Silent(heap[inputBuffer])) =>
        \A c \in Channels(heap[processedBuffer]) :
            \A i \in Frames(heap[processedBuffer]) :
                /\ heap[processedBuffer].data[c][i] = 0
                /\ parsedSample(wav.bytes, c, i) = 0

\* C20 as amended: when the buffer handed to the quantizer is all zeros,
\* every sample produced by create3BitAudio is the level of index
\* round(3.5) = 4 of the variant's table (0.142 in app.js, 0 in part_000),
\* so at most 1/7 (half a quantization step) in magnitude, and every 16-bit
\* sample of the encoded WAV is that level times 32767, truncated (4652 in
\* app.js, 0 in part_000).
C20_SilenceNearZero ==
    (entry \in QuantizerEntries /\ pc = "done" /\ Silent(heap[inputBuffer])) =>
        LET app == entry \in {"compressAudio_app", "create3BitAudio_app"}
        IN  /\ heap[processedBuffer].length = heap[inputBuffer].length
            /\ \A c \in Channels(heap[processedBuffer]) :
                 \A i \in Frames(heap[processedBuffer]) :
                    /\ heap[processedBuffer].data[c][i]
                         = (IF app THEN 142 ELSE 0)
                    /\ 7 * Abs(heap[processedBuffer].data[c][i]) <= SCALE
                    /\ parsedSample(wav.bytes, c, i)
                         = (IF app THEN 4652 ELSE 0)

\* compressAudio of app.js ran at level 3 on a mono file of silence of
\* MaxRenderLength frames, its render all zeros, its encoded samples 4652
C20_Witness ==
    /\ entry = "compressAudio_app" /\ pc = "done" /\ qualityLevel = 3
    /\ heap[audioBuffer].numberOfChannels = 1
    /\ heap[audioBuffer].length = MaxRenderLength
    /\ Silent(heap[audioBuffer])
    /\ Silent(heap[renderedBuffer])
    /\ parsedSample(wav.bytes, 0, MaxRenderLength - 1) = 4652

\* ---------------------------------------------------------------------- C21
\* C21: a distortion amount of 0 disables the waveshaping stage: in
\* compressAudio with settings.distortion = 0 no edge of the graph enters or
\* leaves the wave shaper, and in addDistortion with settings.intensity = 0
\* (no noise, no crackle) every input sample within [-1, 1] is found
\* unchanged in the finished output, whatever the distortion type.
C21_ZeroDriveIsIdentity ==
    /\ (entry \in CompressEntries /\ pc \in {"rendering", "done", "failed"}
        /\ qualitySettings # Undefined /\ qualitySettings.distortion = 0)
       => \A e \in graph : e[1] # "waveShaper" /\ e[2] # "waveShaper"
    /\ (entry = "addDistortion" /\ pc = "done" /\ settings.intensity = 0
        /\ ~settings.noise /\ ~settings.crackle)
       => \A c \in Channels(heap[audioBuffer]) :
            \A i \in Frames(heap[audioBuffer]) :
                Abs(heap[audioBuffer].data[c][i]) <= SCALE
                => heap[processedBuffer].data[c][i]
                   = heap[audioBuffer].data[c][i]

\* ---------------------------------------------------------------------- C22
\* the place of a node in the defined order of the stages
stageRank(n) ==
    CASE n = "source" -> 0
      [] n = "gain" -> 1
      [] n = "compressor" -> 2
      [] n = "waveShaper" -> 3
      [] OTHER -> 4

\* C22: in every compressAudio variant, while rendering is under way the
\* graph holds a directed path from the buffer source to the destination,
\* every connection leads from an earlier stage to a later one (gain, then
\* compressor, then wave shaper), the wave shaper lies on the path exactly
\* when distortion > 0, and the quantized output exists only once rendering
\* is over.
C22_SourceReachesDestinationInOrder ==
    (entry \in CompressEntries /\ pc = "rendering")
    => /\ sourceReachesDestination(graph)
       /\ \A e \in graph : stageRank(e[1]) < stageRank(e[2])
       /\ ("waveShaper" \in reachableFrom(graph, {"source"},
                                           Cardinality(Nodes)))
          <=> (qualitySettings.distortion > 0)
       /\ renderedBuffer = NoBuffer /\ processedBuffer = NoBuffer

\* ---------------------------------------------------------------------- C23
\* the distinct values the finished output holds at the places whose input
\* sample lies within [-1, 1]
crushedOutputs ==
    {heap[processedBuffer].data[c][i] :
        <<c, i>> \in {ci \in Channels(heap[audioBuffer])
                              \X Frames(heap[audioBuffer]) :
                        Abs(heap[audioBuffer].data[ci[1]][ci[2]]) <= SCALE}}

\* C23: with the 'crushed' distortion (no noise, no crackle) the outputs for
\* the input samples within [-1, 1] take at most 2^max(1, 16 - d) distinct
\* values, d = settings.intensity * 0.5.
C23_CrushedLevelCount ==
    (entry = "addDistortion" /\ pc = "done" /\ settings.type = "crushed"
     /\ ~settings.noise /\ ~settings.crackle)
    => Cardinality(crushedOutputs) <= crushedLevels(settings.intensity)

\* ---------------------------------------------------------------------- C25
\* C25: once the promise returned by a timer-driven compressAudio has settled
\* (resolved or rejected) the timer is cleared: no later step of the program
\* invokes the progress callback of that run.
C25_NoProgressAfterSettled ==
    [][(entry \in CompressEntries /\ pc \in {"done", "failed"})
       => (progressLog' = progressLog /\ ~interval')]_vars

\* ---------------------------------------------------------------------- C26
\* C26: in the timer-driven compressAudio variants, as long as offline
\* rendering is pending every value that has been passed to onProgress is
\* strictly below 100, however many times the timer has fired.
C26_HundredOnlyAfterRendering ==
    (entry \in CompressEntries /\ pc = "rendering")
    => \A k \in 1 .. Len(progressLog) : progressLog[k] < 100 * PSCALE

\* ---------------------------------------------------------------------- C24
\* C24: in AudioUI, a run on a selected file whose decoding and offline
\* rendering both succeed ends in the try branch of compress (the engine
\* having been given a callable progress callback and having resolved): the
\* result of the run is stored, and the run did not end in the catch branch.
C24_CompressEndsWithResult ==
    (uiVariant \in AudioUIs /\ settled # NoRun /\ settled.ok)
    => /\ progressCallback(uiVariant) = "function"
       /\ settled.branch = "try"
       /\ blob # NoFile

\* ---------------------------------------------------------------------- C27
\* C27: in each user interface at most one processing run is in flight at
\* any time, whatever files are selected or dropped and whatever buttons
\* are clicked while a run is under way.
C27_AtMostOneRunInFlight == Cardinality(runs) <= 1

\* ---------------------------------------------------------------------- C28
\* C28: whenever a download can be triggered (the result panel is displayed
\* and a result is stored), the stored result was produced from the file
\* whose name the download handler would use for the file name; and every
\* download that took place paired a blob with the name of its own file.
C28_DownloadBelongsToSelectedFile ==
    /\ (uiVariant \in UIVariants /\ downloadClickable /\ blob # NoFile)
       => blob.name = downloadName
    /\ download # NoDownload => download.blob.name = download.name

\* ---------------------------------------------------------------------- C29
\* C29: when a run started by DistortionUI.processAudio ends, the progress
\* panel is hidden, the process button is enabled again (in part_001: set to
\* be enabled by the pending timer), the result panel is displayed exactly
\* when the run succeeded, and the controls panel is displayed when it
\* failed.
C29_RunEndsIdle ==
    [][(uiVariant \in DistortionUIs /\ settled' # settled)
       => /\ ~panels'["progress"]
          /\ ~processDisabled' \/ enableTimer'
          /\ panels'["result"] <=> (settled'.branch = "try")
          /\ settled'.branch = "catch" => panels'["controls"]]_vars
====
